---- MODULE Spec2Model ----
(***************************************************************************)
(* The four model-acquisition scripts of ReadKnows as one state machine:   *)
(*   ocr-api/download_models.py             (script = "ocr")               *)
(*   tts-api/scripts/download-cosyvoice.py  (script = "cosyvoice")         *)
(*   tts-api/scripts/download-indextts2.py  (script = "indextts2")         *)
(*   tts-api/scripts/download-multitts.py   (script = "multitts")          *)
(* A behaviour is up to MaxRuns consecutive runs of one script against the *)
(* same filesystem.  Every subprocess call, constructor call and prompt    *)
(* draws its outcome nondeterministically; the log `calls` records them.   *)
(* A call of an external binary (git, xcodebuild, sudo) can succeed, exit   *)
(* non-zero, or raise FileNotFoundError; sys.executable always exists.     *)
(* The filesystem is touched by the script and its subprocesses only, and  *)
(* the directories the script inspects are readable.                       *)
(***************************************************************************)
EXTENDS Integers, Sequences, FiniteSets, TLC

\* ---------------------------------------------------------------- bounds
MaxRuns == 2        \* consecutive runs of the script on one filesystem
MaxModels == 2      \* distinct PaddleOCR model directories
MaxSubdirs == 2     \* entries of the cloned CosyVoice repository root

Scripts == {"ocr", "cosyvoice", "indextts2", "multitts"}
ModelNames == 1..MaxModels
\* an entry of cosyvoice-source/: a directory holding setup.py, a directory
\* holding only pyproject.toml, a directory holding neither, a plain file
SubdirKinds == {"setup_py", "pyproject_toml", "plain_dir", "file"}
NoRepo == [setup_py |-> FALSE, pyproject_toml |-> FALSE, subdirs |-> <<>>]

VARIABLES
    script,            \* which script this behaviour runs
    has_arg,           \* len(sys.argv) >= 2
    platform,          \* sys.platform
    home_is_default,   \* expanduser("~/.paddlex/...") == /root/.paddlex/...
    run,               \* number of the current run
    pc,                \* position in the script
    models_dir_exists, \* models_dir is a directory on disk
    repo_dir,          \* models_dir/cosyvoice-source or models_dir/index-tts:
                       \*   0 = absent, n = cloned during run n
    repo,              \* layout of the cloned CosyVoice repository
    dest_items,        \* OCR: item name -> where its content came from
    default_models,    \* items of /root/.paddlex/official_models
    home_models,       \* items of ~/.paddlex/official_models (when distinct)
    models_to_copy,    \* OCR: list built at lines 59-63
    loc_idx,           \* OCR: index of the relocation loop (line 67)
    subdir_idx,        \* CosyVoice: index of the iterdir loop (line 128)
    calls,             \* log of calls: [cmd, out, existed]
    tried,             \* strategies started in this run, in order
    reported,          \* kinds of text printed in this run
    result,            \* "none" | "success" | "failure"
    exit_code,         \* Running, or the exit status of the ended process
    uncaught,          \* the process died of an uncaught exception
    start_exists,      \* models_dir_exists when the run started
    start_repo_dir,    \* repo_dir when the run started
    start_dest_items   \* dest_items when the run started

cfgVars == <<script, has_arg, platform, home_is_default>>
fsVars == <<models_dir_exists, repo_dir, repo, dest_items, default_models, home_models>>
loopVars == <<models_to_copy, loc_idx, subdir_idx>>
startVars == <<start_exists, start_repo_dir, start_dest_items>>
vars == <<script, has_arg, platform, home_is_default, run, pc,
          models_dir_exists, repo_dir, repo, dest_items, default_models,
          home_models, models_to_copy, loc_idx, subdir_idx, calls, tried,
          reported, result, exit_code, uncaught, start_exists,
          start_repo_dir, start_dest_items>>

\* ------------------------------------------------------------- helpers
\* exit_code while the process has not ended (no exit status yet)
Running == 0 - 1

\* one entry of the call log; `existed` is whether models_dir was on disk
\* at the moment of the call
Call(cmd, out) == [cmd |-> cmd, out |-> out, existed |-> models_dir_exists]

\* sys.exit(code) / falling off the end of the script
Exit(code, res, unc) ==
    /\ pc' = "exit"
    /\ exit_code' = code
    /\ result' = res
    /\ uncaught' = unc

Continue(next) ==
    /\ pc' = next
    /\ UNCHANGED <<exit_code, result, uncaught>>

\* The exit status of the interpreter: 1 when an exception propagates out of
\* main(), 0 when main() returns, the argument of sys.exit otherwise.
UncaughtStatus == 1
ReturnStatus == 0

Init ==
    /\ script \in Scripts
    /\ has_arg \in BOOLEAN
    /\ platform \in {"darwin", "linux"}
    /\ (script # "cosyvoice" => platform = "linux")
    /\ home_is_default \in BOOLEAN
    /\ default_models \in SUBSET ModelNames
    /\ home_models \in SUBSET ModelNames
    /\ (home_is_default => home_models = {})
    /\ (script # "ocr" =>
            /\ ~home_is_default
            /\ default_models = {}
            /\ home_models = {})
    /\ run = 1
    /\ pc = "start"
    /\ models_dir_exists \in BOOLEAN
    /\ repo_dir = 0
    /\ repo = NoRepo
    /\ dest_items = <<>>
    /\ models_to_copy = <<>>
    /\ loc_idx = 1
    /\ subdir_idx = 1
    /\ calls = <<>>
    /\ tried = <<>>
    /\ reported = {}
    /\ result = "none"
    /\ exit_code = Running
    /\ uncaught = FALSE
    /\ start_exists = models_dir_exists
    /\ start_repo_dir = 0
    /\ start_dest_items = <<>>

\* ============================================ download-multitts.py
\* lines 10-16
MultiArgs ==
    /\ script = "multitts" /\ pc = "start"
    /\ IF ~has_arg
         THEN /\ reported' = reported \cup {"Usage"}
              /\ Exit(1, "none", FALSE)
         ELSE /\ Continue("pip_install")
              /\ UNCHANGED reported
    /\ UNCHANGED <<cfgVars, fsVars, loopVars, startVars, run, calls, tried>>

\* main() returns on both paths of the try (lines 19-38)
MultiExitStatus(out) == ReturnStatus

\* lines 18-38: pip install multi-tts; a failure is printed, then return
MultiPipInstall ==
    /\ script = "multitts" /\ pc = "pip_install"
    /\ \E out \in {"ok", "nonzero"} :
        /\ calls' = Append(calls, Call("pip_install", out))
        /\ tried' = Append(tried, 1)
        /\ IF out = "ok"
             THEN /\ reported' = reported \cup {"Done"}
                  /\ Exit(MultiExitStatus(out), "success", FALSE)
             ELSE /\ reported' = reported \cup {"NetworkOrRemoteFailure"}
                  /\ Exit(MultiExitStatus(out), "failure", FALSE)
    /\ UNCHANGED <<cfgVars, fsVars, loopVars, startVars, run>>

\* ============================================ download-indextts2.py
\* lines 12-19
IndexArgs ==
    /\ script = "indextts2" /\ pc = "start"
    /\ IF ~has_arg
         THEN /\ reported' = reported \cup {"Usage"}
              /\ Exit(1, "none", FALSE)
         ELSE /\ Continue("lfs_check")
              /\ UNCHANGED reported
    /\ UNCHANGED <<cfgVars, fsVars, loopVars, startVars, run, calls, tried>>

\* except (subprocess.CalledProcessError, FileNotFoundError):
\* download-cosyvoice.py line 24, download-indextts2.py line 25
ProbeFailedOnlyNonzero(out) == out = "nonzero"
ProbeFailed(out) == out \in {"nonzero", "notfound"}

\* lines 21-36
IndexLfsCheck ==
    /\ script = "indextts2" /\ pc = "lfs_check"
    /\ \E out \in {"ok", "nonzero", "notfound"} :
        /\ calls' = Append(calls, Call("git_lfs_version", out))
        /\ IF ProbeFailed(out)
             THEN /\ reported' = reported \cup {"ToolMissing"}
                  /\ Exit(1, "failure", FALSE)
             ELSE /\ Continue("clone")
                  /\ UNCHANGED reported
    /\ UNCHANGED <<cfgVars, fsVars, loopVars, startVars, run, tried>>

\* if not indextts2_dir.exists()
IndexNeedsClone == repo_dir = 0

\* lines 38-43: check=True and no handler, so a failed clone propagates.
\* git clone creates the leading directories of its target itself; a failed
\* clone removes the target again but may leave the leading directories
IndexClone ==
    /\ script = "indextts2" /\ pc = "clone"
    /\ IF IndexNeedsClone
         THEN \E out \in {"ok", "nonzero"} :
                /\ calls' = Append(calls, Call("git_clone", out))
                /\ tried' = Append(tried, 1)
                /\ IF out = "ok"
                     THEN /\ repo_dir' = run
                          /\ models_dir_exists' = TRUE
                          /\ Continue("pip_install")
                     ELSE /\ repo_dir' = 0
                          /\ models_dir_exists' \in {models_dir_exists, TRUE}
                          /\ Exit(UncaughtStatus, "failure", TRUE)
         ELSE /\ Continue("pip_install")
              /\ UNCHANGED <<calls, tried, repo_dir, models_dir_exists>>
    /\ UNCHANGED <<cfgVars, loopVars, startVars, run, reported,
                   repo, dest_items, default_models, home_models>>

\* lines 45-49: check=True and no handler
IndexPipInstall ==
    /\ script = "indextts2" /\ pc = "pip_install"
    /\ \E out \in {"ok", "nonzero"} :
        /\ calls' = Append(calls, Call("pip_install_e", out))
        /\ IF out = "ok"
             THEN /\ reported' = reported \cup {"Done"}
                  /\ Exit(ReturnStatus, "success", FALSE)
             ELSE /\ UNCHANGED reported
                  /\ Exit(UncaughtStatus, "failure", TRUE)
    /\ UNCHANGED <<cfgVars, fsVars, loopVars, startVars, run, tried>>

\* ============================================ download-cosyvoice.py
\* lines 12-19
CosyArgs ==
    /\ script = "cosyvoice" /\ pc = "start"
    /\ IF ~has_arg
         THEN /\ reported' = reported \cup {"Usage"}
              /\ Exit(1, "none", FALSE)
         ELSE /\ Continue("git_check")
              /\ UNCHANGED reported
    /\ UNCHANGED <<cfgVars, fsVars, loopVars, startVars, run, calls, tried>>

\* lines 21-31
CosyGitCheck ==
    /\ script = "cosyvoice" /\ pc = "git_check"
    /\ \E out \in {"ok", "nonzero", "notfound"} :
        /\ calls' = Append(calls, Call("git_version", out))
        /\ IF ProbeFailed(out)
             THEN /\ reported' = reported \cup {"ToolMissing"}
                  /\ Exit(1, "failure", FALSE)
             ELSE /\ Continue(IF platform = "darwin" THEN "xcode_check" ELSE "method1")
                  /\ UNCHANGED reported
    /\ UNCHANGED <<cfgVars, fsVars, loopVars, startVars, run, tried>>

\* lines 34-37 and 57-58: xcodebuild -license check (no check=True: the
\* return code is inspected; a missing binary raises FileNotFoundError)
CosyXcodeCheck ==
    /\ script = "cosyvoice" /\ pc = "xcode_check"
    /\ \E out \in {"ok", "nonzero", "notfound"} :
        /\ calls' = Append(calls, Call("xcodebuild_license_check", out))
        /\ CASE out = "ok" ->
                  /\ Continue("method1")
                  /\ UNCHANGED reported
             [] out = "notfound" ->
                  /\ reported' = reported \cup {"XcodebuildNotFound"}
                  /\ Continue("method1")
             [] out = "nonzero" ->
                  /\ reported' = reported \cup {"LicenseNotAccepted"}
                  /\ Continue("prompt")
    /\ UNCHANGED <<cfgVars, fsVars, loopVars, startVars, run, tried>>

\* lines 44-47 and 51-56: input().strip().lower()
CosyPrompt ==
    /\ script = "cosyvoice" /\ pc = "prompt"
    /\ \E answer \in {"y", "other", "eof", "interrupt"} :
        /\ calls' = Append(calls, Call("input", answer))
        /\ IF answer = "y"
             THEN Continue("accept")
             ELSE Exit(1, "failure", FALSE)
    /\ UNCHANGED <<cfgVars, fsVars, loopVars, startVars, run, tried, reported>>

\* lines 48-50 with the handlers of lines 54-58: sudo xcodebuild -license
\* accept, check=True.  CalledProcessError has no handler; KeyboardInterrupt
\* is caught at line 54; FileNotFoundError (no sudo on PATH) is caught by
\* the outer handler at line 57, after which the script goes on.
CosyAccept ==
    /\ script = "cosyvoice" /\ pc = "accept"
    /\ \E out \in {"ok", "nonzero", "notfound", "interrupt"} :
        /\ calls' = Append(calls, Call("sudo_xcodebuild_license_accept", out))
        /\ CASE out = "ok" ->
                  /\ reported' = reported \cup {"LicenseAccepted"}
                  /\ Continue("method1")
             [] out = "nonzero" ->
                  /\ UNCHANGED reported
                  /\ Exit(UncaughtStatus, "failure", TRUE)
             [] out = "interrupt" ->
                  /\ UNCHANGED reported
                  /\ Exit(1, "failure", FALSE)
             [] out = "notfound" ->
                  /\ reported' = reported \cup {"XcodebuildNotFound"}
                  /\ Continue("method1")
    /\ UNCHANGED <<cfgVars, fsVars, loopVars, startVars, run, tried>>

\* lines 67-68: print success, return
Method1NeverReturns(out) == FALSE
Method1Returns(out) == out = "ok"

\* lines 60-70
CosyMethod1 ==
    /\ script = "cosyvoice" /\ pc = "method1"
    /\ \E out \in {"ok", "nonzero"} :
        /\ calls' = Append(calls, Call("pip_install_git", out))
        /\ tried' = Append(tried, 1)
        /\ IF Method1Returns(out)
             THEN /\ reported' = reported \cup {"Done"}
                  /\ Exit(ReturnStatus, "success", FALSE)
             ELSE /\ UNCHANGED reported
                  /\ Continue("method2")
    /\ UNCHANGED <<cfgVars, fsVars, loopVars, startVars, run>>

\* Path.mkdir(parents=True, exist_ok=True): the directory exists afterwards
MkdirSkipped(exists) == exists
Mkdir(exists) == TRUE

\* lines 72-82: mkdir, then rmtree of an existing cosyvoice-source
CosyPrepare ==
    /\ script = "cosyvoice" /\ pc = "method2"
    /\ tried' = Append(tried, 2)
    /\ models_dir_exists' = Mkdir(models_dir_exists)
    /\ IF repo_dir # 0
         THEN /\ calls' = calls \o <<Call("mkdir", "ok"), Call("rmtree", "ok")>>
              /\ repo_dir' = 0
              /\ repo' = NoRepo
         ELSE /\ calls' = Append(calls, Call("mkdir", "ok"))
              /\ UNCHANGED <<repo_dir, repo>>
    /\ Continue("clone")
    /\ UNCHANGED <<cfgVars, loopVars, startVars, run, reported,
                   dest_items, default_models, home_models>>

\* what a clone of the remote repository may contain
RepoLayouts ==
    [setup_py : BOOLEAN, pyproject_toml : BOOLEAN,
     subdirs : UNION {[1..n -> SubdirKinds] : n \in 0..MaxSubdirs}]

\* lines 84-99
CosyClone ==
    /\ script = "cosyvoice" /\ pc = "clone"
    /\ \E out \in {"ok", "nonzero"} :
        /\ calls' = Append(calls, Call("git_clone", out))
        /\ IF out = "ok"
             THEN /\ repo_dir' = run
                  /\ repo' \in RepoLayouts
                  /\ UNCHANGED reported
                  /\ Continue("install")
             ELSE /\ UNCHANGED <<repo_dir, repo>>
                  /\ reported' = reported \cup {"NetworkOrRemoteFailure"}
                  /\ Exit(1, "failure", FALSE)
    /\ UNCHANGED <<cfgVars, loopVars, startVars, run, tried,
                   models_dir_exists, dest_items, default_models, home_models>>

\* lines 105-114
CosySetupInstall ==
    /\ script = "cosyvoice" /\ pc = "install"
    /\ repo.setup_py
    /\ \E out \in {"ok", "nonzero"} :
        /\ calls' = Append(calls, Call("setup_py_install", out))
        /\ IF out = "ok"
             THEN /\ reported' = reported \cup {"Done"}
                  /\ Exit(ReturnStatus, "success", FALSE)
             ELSE /\ reported' = reported \cup {"InstallFailed"}
                  /\ Continue("fail")
    /\ UNCHANGED <<cfgVars, fsVars, loopVars, startVars, run, tried>>

\* lines 115-124
CosyPyprojectInstall ==
    /\ script = "cosyvoice" /\ pc = "install"
    /\ ~repo.setup_py /\ repo.pyproject_toml
    /\ \E out \in {"ok", "nonzero"} :
        /\ calls' = Append(calls, Call("pip_install_e", out))
        /\ IF out = "ok"
             THEN /\ reported' = reported \cup {"Done"}
                  /\ Exit(ReturnStatus, "success", FALSE)
             ELSE /\ reported' = reported \cup {"InstallFailed"}
                  /\ Continue("fail")
    /\ UNCHANGED <<cfgVars, fsVars, loopVars, startVars, run, tried>>

\* lines 125-128: the else branch starts method 3
CosyMethod3 ==
    /\ script = "cosyvoice" /\ pc = "install"
    /\ ~repo.setup_py /\ ~repo.pyproject_toml
    /\ tried' = Append(tried, 3)
    /\ subdir_idx' = 1
    /\ Continue("subdirs")
    /\ UNCHANGED <<cfgVars, fsVars, startVars, run, calls, reported,
                   models_to_copy, loc_idx>>

\* lines 128-152: one iteration of the loop over cosyvoice-source/
CosySubdir ==
    /\ script = "cosyvoice" /\ pc = "subdirs"
    /\ subdir_idx <= Len(repo.subdirs)
    /\ IF repo.subdirs[subdir_idx] \in {"setup_py", "pyproject_toml"}
         THEN \E out \in {"ok", "nonzero"} :
                /\ calls' = Append(calls, Call("pip_install_e_subdir", out))
                /\ IF out = "ok"
                     THEN /\ reported' = reported \cup {"Done"}
                          /\ Exit(ReturnStatus, "success", FALSE)
                          /\ UNCHANGED subdir_idx
                     ELSE /\ UNCHANGED reported
                          /\ subdir_idx' = subdir_idx + 1
                          /\ Continue("subdirs")
         ELSE /\ subdir_idx' = subdir_idx + 1
              /\ Continue("subdirs")
              /\ UNCHANGED <<calls, reported>>
    /\ UNCHANGED <<cfgVars, fsVars, startVars, run, tried, models_to_copy, loc_idx>>

\* lines 154-167: reached after a failed setup.py / pyproject.toml install
\* or when the loop over the subdirectories ends
CosyFail ==
    /\ script = "cosyvoice"
    /\ \/ pc = "fail"
       \/ pc = "subdirs" /\ subdir_idx > Len(repo.subdirs)
    /\ reported' = reported \cup {"NoInstallableArtifactFound"}
    /\ Exit(1, "failure", FALSE)
    /\ UNCHANGED <<cfgVars, fsVars, loopVars, startVars, run, calls, tried>>

\* ============================================ ocr-api/download_models.py
\* line 125: sys.exit(0 if success else 1)
OcrExitAlwaysZero(success) == 0
OcrExitStatus(success) == IF success THEN 0 ELSE 1

\* lines 10-23 and 118-123: models_dir defaults to ./models, so the script
\* runs with or without an argument; mkdir comes first
OcrStart ==
    /\ script = "ocr" /\ pc = "start"
    /\ models_dir_exists' = Mkdir(models_dir_exists)
    /\ calls' = Append(calls, Call("mkdir", "ok"))
    /\ Continue("import")
    /\ UNCHANGED <<cfgVars, loopVars, startVars, run, tried, reported,
                   repo_dir, repo, dest_items, default_models, home_models>>

\* lines 109-113: the outer handler prints the exception and its traceback
\* and returns False
OcrReturnFalse ==
    /\ reported' = reported \cup {"NetworkOrRemoteFailure", "Traceback"}
    /\ Exit(OcrExitStatus(FALSE), "failure", FALSE)

\* line 31: from paddleocr import PaddleOCR
OcrImport ==
    /\ script = "ocr" /\ pc = "import"
    /\ \E out \in {"ok", "raise"} :
        /\ calls' = Append(calls, Call("import_paddleocr", out))
        /\ IF out = "ok"
             THEN /\ Continue("ctor1")
                  /\ UNCHANGED reported
             ELSE OcrReturnFalse
    /\ UNCHANGED <<cfgVars, fsVars, loopVars, startVars, run, tried>>

\* What a PaddleOCR constructor call may leave on disk: it fetches the
\* models S that are missing from the cache directory it uses, which is
\* PADDLEX_HOME (the destination), /root/.paddlex/official_models, or
\* ~/.paddlex/official_models; where = "none" fetches nothing.
PaddleWrites(where, S) ==
    /\ dest_items' =
         IF where = "dest"
           THEN [n \in DOMAIN dest_items \cup S |->
                    IF n \in DOMAIN dest_items THEN dest_items[n] ELSE "paddle"]
           ELSE dest_items
    /\ default_models' = IF where = "default" THEN default_models \cup S
                         ELSE default_models
    /\ home_models' = IF where = "home" THEN home_models \cup S ELSE home_models
    /\ models_dir_exists' = (models_dir_exists \/ (where = "dest" /\ S # {}))
    /\ (where = "none" => S = {})
    /\ (where = "home" => ~home_is_default)

CtorCmd(k) == <<"PaddleOCR_3x", "PaddleOCR_26x", "PaddleOCR_noargs">>[k]

\* lines 36-52: constructor attempt k; an exception of attempt 1 or 2 leads
\* to the next attempt, an exception of attempt 3 to the outer handler
OcrCtor(k) ==
    /\ script = "ocr" /\ pc = <<"ctor1", "ctor2", "ctor3">>[k]
    /\ \E out \in {"ok", "raise"}, where \in {"dest", "default", "home", "none"},
          S \in SUBSET ModelNames :
        /\ calls' = Append(calls, Call(CtorCmd(k), out))
        /\ tried' = Append(tried, k)
        /\ PaddleWrites(where, S)
        /\ CASE out = "ok" ->
                  /\ reported' = reported \cup {"Done"}
                  /\ Continue("relocate")
             [] out = "raise" /\ k < 3 ->
                  /\ UNCHANGED reported
                  /\ Continue(<<"ctor2", "ctor3">>[k])
             [] out = "raise" /\ k = 3 ->
                  OcrReturnFalse
    /\ UNCHANGED <<cfgVars, loopVars, startVars, run, repo_dir, repo>>

OcrCtor3x == OcrCtor(1)
OcrCtor26x == OcrCtor(2)
OcrCtorNoArgs == OcrCtor(3)

\* lines 55-63: the fallback locations that exist and are not empty
ModelsToCopy ==
    (IF default_models # {} THEN <<"default">> ELSE <<>>) \o
    (IF ~home_is_default /\ home_models # {} THEN <<"home">> ELSE <<>>)

\* line 65: if models_to_copy and not any(models_path.iterdir())
ShouldRelocateIgnoringDest(to_copy, items) == to_copy # <<>>
ShouldRelocate(to_copy, items) == to_copy # <<>> /\ DOMAIN items = {}

OcrRelocateCheck ==
    /\ script = "ocr" /\ pc = "relocate"
    /\ models_to_copy' = ModelsToCopy
    /\ loc_idx' = 1
    /\ IF ShouldRelocate(ModelsToCopy, dest_items)
         THEN /\ reported' = reported \cup {"Relocating"}
              /\ Continue("copy")
         ELSE /\ UNCHANGED reported
              /\ Continue("listing")
    /\ UNCHANGED <<cfgVars, fsVars, startVars, run, calls, tried, subdir_idx>>

SourceItems(loc) == IF loc = "default" THEN default_models ELSE home_models

\* lines 67-86: one iteration of the loop over models_to_copy.  The items S
\* are copied (an existing destination item is removed first); when every
\* item was copied the loop breaks, otherwise an exception interrupted the
\* copy, is printed, and the loop goes on to the next location.
OcrCopyLocation ==
    /\ script = "ocr" /\ pc = "copy"
    /\ loc_idx <= Len(models_to_copy)
    /\ LET loc == models_to_copy[loc_idx]
           src == SourceItems(loc)
       IN \E S \in SUBSET src :
            /\ dest_items' = [n \in DOMAIN dest_items \cup S |->
                                 IF n \in S THEN loc ELSE dest_items[n]]
            /\ IF S = src
                 THEN /\ calls' = Append(calls, Call("copy", "ok"))
                      /\ reported' = reported \cup {"Relocated"}
                      /\ UNCHANGED loc_idx
                      /\ Continue("listing")
                 ELSE /\ calls' = Append(calls, Call("copy", "raise"))
                      /\ reported' = reported \cup {"CopyError"}
                      /\ loc_idx' = loc_idx + 1
                      /\ Continue(IF loc_idx < Len(models_to_copy)
                                    THEN "copy" ELSE "listing")
    /\ UNCHANGED <<cfgVars, startVars, run, tried, models_to_copy, subdir_idx,
                   models_dir_exists, repo_dir, repo, default_models, home_models>>

\* lines 88-108: list the destination, warn when it is empty, return True
OcrListing ==
    /\ script = "ocr" /\ pc = "listing"
    /\ reported' = reported \cup
          {IF DOMAIN dest_items # {} THEN "Listing" ELSE "EmptyDestWarning"}
    /\ Exit(OcrExitStatus(TRUE), "success", FALSE)
    /\ UNCHANGED <<cfgVars, fsVars, loopVars, startVars, run, calls, tried>>

\* ============================================ a further run of the script
\* The same command is started again on the filesystem the last run left.
Rerun ==
    /\ pc = "exit"
    /\ run < MaxRuns
    /\ run' = run + 1
    /\ pc' = "start"
    /\ models_to_copy' = <<>>
    /\ loc_idx' = 1
    /\ subdir_idx' = 1
    /\ calls' = <<>>
    /\ tried' = <<>>
    /\ reported' = {}
    /\ result' = "none"
    /\ exit_code' = Running
    /\ uncaught' = FALSE
    /\ start_exists' = models_dir_exists
    /\ start_repo_dir' = repo_dir
    /\ start_dest_items' = dest_items
    /\ UNCHANGED <<cfgVars, fsVars>>

Next ==
    \/ OcrStart
    \/ OcrImport
    \/ OcrCtor3x
    \/ OcrCtor26x
    \/ OcrCtorNoArgs
    \/ OcrRelocateCheck
    \/ OcrCopyLocation
    \/ OcrListing
    \/ Rerun
    \/ CosyArgs
    \/ CosyGitCheck
    \/ CosyXcodeCheck
    \/ CosyPrompt
    \/ CosyAccept
    \/ CosyMethod1
    \/ CosyPrepare
    \/ CosyClone
    \/ CosySetupInstall
    \/ CosyPyprojectInstall
    \/ CosyMethod3
    \/ CosySubdir
    \/ CosyFail
    \/ MultiArgs
    \/ MultiPipInstall
    \/ IndexArgs
    \/ IndexLfsCheck
    \/ IndexClone
    \/ IndexPipInstall

Spec == Init /\ [][Next]_vars

\* =================================================== properties
\* calls that attempt an acquisition strategy
StrategyCmds ==
    {"pip_install_git", "git_clone", "setup_py_install", "pip_install_e",
     "pip_install_e_subdir", "PaddleOCR_3x", "PaddleOCR_26x", "PaddleOCR_noargs"}
\* strategy calls whose success is the success of the strategy
SuccessCmds == StrategyCmds \ {"git_clone"}
\* calls that write under models_dir
WriteCmds == {"git_clone", "copy", "PaddleOCR_3x", "PaddleOCR_26x", "PaddleOCR_noargs"}
\* the strategy a call belongs to
MethodOf(cmd) ==
    CASE cmd \in {"pip_install_git", "PaddleOCR_3x"} -> 1
      [] cmd \in {"git_clone", "setup_py_install", "pip_install_e", "PaddleOCR_26x"} -> 2
      [] OTHER -> 3
Chained == script \in {"ocr", "cosyvoice"}
\* the log holds a call of cmd that ended with out
Has(cmd, out) == \E i \in DOMAIN calls : calls[i].cmd = cmd /\ calls[i].out = out

\* C1: short-circuit on first success.  In download-cosyvoice.py and in
\* download_models the strategies are started in order without gaps; when a
\* strategy call succeeds, the strategies started are exactly 1..k for its
\* strategy k, no strategy call follows it, and the run ends with success
\* (exit status 0).
ShortCircuit ==
    Chained =>
        /\ \A i \in DOMAIN tried : tried[i] = i
        /\ \A i \in DOMAIN calls :
              (calls[i].cmd \in SuccessCmds /\ calls[i].out = "ok") =>
                  /\ \A j \in DOMAIN calls : j > i => calls[j].cmd \notin StrategyCmds
                  /\ tried = [m \in 1..MethodOf(calls[i].cmd) |-> m]
                  /\ result # "failure"
                  /\ pc = "exit" => (result = "success" /\ exit_code = 0)
ShortCircuitWitness ==
    /\ script = "cosyvoice" /\ pc = "exit" /\ result = "success"
    /\ tried = <<1, 2, 3>>
    /\ \E i \in DOMAIN calls : calls[i].cmd = "pip_install_e_subdir" /\ calls[i].out = "nonzero"

\* C2: exhaustion.  A run of download-cosyvoice.py or download_models that
\* started a strategy and ends in failure has started every strategy, 1, 2
\* and 3, in order: no failure ends the run while a strategy is untried.
\* (Runs ended by a failed git clone, which leaves nothing to install, are
\* left aside: the claim is stated for the runs where every later strategy
\* still had something to work on.)
Exhaustion ==
    (Chained /\ pc = "exit" /\ result = "failure" /\ tried # <<>>
        /\ ~Has("git_clone", "nonzero")) =>
        tried = <<1, 2, 3>>

\* C3: exit status matches outcome.  A script started with its models_dir
\* argument exits 0 exactly when the acquisition succeeded and exits 1 when
\* it failed.
ScriptRuns == has_arg \/ script = "ocr"
ExitStatusMatchesOutcome ==
    (pc = "exit" /\ ScriptRuns) =>
        /\ exit_code = 0 <=> result = "success"
        /\ result = "failure" => exit_code = 1
\* C3 as amended: the above for download_models, download-cosyvoice.py and
\* download-indextts2.py; download-multitts.py exits 0 whether its pip
\* install succeeded or failed.
ExitStatusMatchesOutcomeExceptMultiTTS ==
    (pc = "exit" /\ ScriptRuns) =>
        IF script = "multitts"
          THEN exit_code = 0
          ELSE /\ exit_code = 0 <=> result = "success"
               /\ result = "failure" => exit_code = 1
ExitStatusWitness ==
    /\ pc = "exit" /\ has_arg
    /\ script = "multitts" /\ result = "failure" /\ exit_code = 0
    /\ Has("pip_install", "nonzero")

\* the asset the script is expected to leave under models_dir
HasAsset == IF script = "ocr" THEN DOMAIN dest_items # {} ELSE repo_dir # 0

\* C4: success implies the asset is present.  When download_models,
\* download-cosyvoice.py or download-indextts2.py ends with Success, the
\* destination directory exists and holds the expected asset.
SuccessImpliesAsset ==
    (pc = "exit" /\ result = "success" /\ script # "multitts") =>
        models_dir_exists /\ HasAsset
\* C4 as amended: a Success that came through a clone (download-indextts2.py,
\* methods 2 and 3 of download-cosyvoice.py) leaves the destination directory
\* existing with the clone in it; a Success of download_models leaves the
\* destination directory existing, and it is empty exactly when the
\* empty-destination warning was printed; method 1 of download-cosyvoice.py
\* succeeds without creating or filling the destination.
SuccessImpliesAssetUnlessPipOrEmptyWarning ==
    (pc = "exit" /\ result = "success") =>
        /\ script = "indextts2" => (models_dir_exists /\ repo_dir # 0)
        /\ (script = "cosyvoice" /\ tried # <<1>>) =>
              (models_dir_exists /\ repo_dir = run)
        /\ script = "ocr" =>
              /\ models_dir_exists
              /\ DOMAIN dest_items = {} <=> "EmptyDestWarning" \in reported
SuccessAssetWitness ==
    /\ script = "ocr" /\ pc = "exit" /\ result = "success"
    /\ dest_items = <<>> /\ "EmptyDestWarning" \in reported
    /\ default_models = {} /\ ~start_exists

\* C5: tool-missing gate.  When the probe of git (download-cosyvoice.py) or
\* git lfs (download-indextts2.py) fails, the script reports the missing
\* tool, exits with a non-zero status, and makes no further call.
ToolProbes == {"git_version", "git_lfs_version"}
ToolMissingGate ==
    \A i \in DOMAIN calls :
        (calls[i].cmd \in ToolProbes /\ calls[i].out # "ok") =>
            /\ i = Len(calls)
            /\ pc = "exit"
            /\ exit_code = 1
            /\ "ToolMissing" \in reported
ToolMissingWitness ==
    /\ pc = "exit" /\ script = "cosyvoice" /\ platform = "darwin"
    /\ calls = <<[cmd |-> "git_version", out |-> "notfound", existed |-> FALSE]>>

CopyCalls(log) == Cardinality({i \in DOMAIN log : log[i].cmd = "copy"})
FallbackNonEmpty == default_models # {} \/ (~home_is_default /\ home_models # {})
\* C6: relocation only into an empty destination.  In download_models, when
\* the destination is non-empty after the PaddleOCR initialisation the run
\* goes on to the listing with the destination untouched; the relocation
\* loop is entered only with an empty destination and a non-empty fallback
\* location; and nothing is copied outside that loop.
RelocationOnlyIntoEmpty ==
    [][script = "ocr" =>
          /\ (pc = "relocate" /\ DOMAIN dest_items # {}) =>
                (pc' = "listing" /\ dest_items' = dest_items)
          /\ (pc = "relocate" /\ pc' = "copy") =>
                (DOMAIN dest_items = {} /\ FallbackNonEmpty)
          /\ CopyCalls(calls') > CopyCalls(calls) => pc = "copy"
          /\ pc \notin {"ctor1", "ctor2", "ctor3", "copy"} => dest_items' = dest_items
      ]_vars
RelocationWitness ==
    /\ script = "ocr" /\ pc = "listing"
    /\ DOMAIN dest_items # {} /\ FallbackNonEmpty
    /\ CopyCalls(calls) = 0

\* C7: destination is created before it is written.  In a run that starts
\* with models_dir absent, every call that writes under models_dir comes
\* after the script's own mkdir.
CreatedBeforeWritten ==
    \A i \in DOMAIN calls :
        (calls[i].cmd \in WriteCmds /\ ~start_exists) =>
            \E j \in 1..(i - 1) : calls[j].cmd = "mkdir"

\* the destination held the completed asset when the run started
StartComplete ==
    CASE script = "ocr" -> DOMAIN start_dest_items = ModelNames
      [] script \in {"cosyvoice", "indextts2"} -> start_repo_dir # 0
      [] OTHER -> FALSE
\* C8: idempotent re-run.  A further run against a destination that holds
\* the completed asset ends with the destination unchanged or with a
\* complete asset acquired by that run.
IdempotentRerun ==
    (pc = "exit" /\ run > 1 /\ StartComplete) =>
        \/ repo_dir = start_repo_dir /\ dest_items = start_dest_items
        \/ script # "ocr" /\ repo_dir = run

\* C9: expected failures never escape as exceptions: no run ends through
\* an uncaught exception.
NoUncaughtException == ~uncaught

\* C10: license gate of download-cosyvoice.py.  After xcodebuild -license
\* check returned non-zero, a strategy is attempted only if the user
\* answered y and sudo xcodebuild -license accept succeeded; any other
\* answer, EOF or interrupt ends the run with exit status 1.
LicenseGate ==
    Has("xcodebuild_license_check", "nonzero") =>
        /\ (\E i \in DOMAIN calls : calls[i].cmd \in StrategyCmds) =>
              (Has("input", "y") /\ Has("sudo_xcodebuild_license_accept", "ok"))
        /\ (\E a \in {"other", "eof", "interrupt"} : Has("input", a)) =>
              (pc = "exit" /\ exit_code = 1)
====
